---- MODULE Spec2Model ----
(***************************************************************************)
(* Campus Event Management mock backend (src/backend/mock_backend.py).     *)
(*                                                                         *)
(* The three module-level stores events_db, venues_db and notifications_log*)
(* are the state.  Every route handler is translated twice from the same   *)
(* helper operators:                                                       *)
(*   - as one atomic action (specification Spec): requests served one      *)
(*     after another;                                                      *)
(*   - as a sequence of steps of a worker thread (specifications           *)
(*     SpecConcEvents, SpecConcVenues): the handlers are plain `def`       *)
(*     routes, which FastAPI runs on a thread pool, and they take no lock, *)
(*     so another request may run between any two statements.              *)
(*                                                                         *)
(* Display-only string fields that no condition reads (Event.name, date,   *)
(* time, venue, description, Venue.name, facilities, student_name,         *)
(* message texts) are left out; messages are modelled by a tag.            *)
(***************************************************************************)
EXTENDS Integers, Sequences, FiniteSets, TLC

(***************************************************************************)
(* Bounds of the model                                                     *)
(***************************************************************************)
MaxCap == 2          \* max_participants of the larger seeded event
MaxVenueCap == 2     \* capacity of the larger seeded venue
MaxBookings == 2     \* a venue's bookings are explored up to this length
MaxLog == 2          \* the ledger is explored up to this length
NumThreads == 2      \* worker threads serving requests at the same time
MaxClock == 1        \* datetime.now() is read as a value in 0..MaxClock
MaxParams == 2       \* parameters of a function handed to function_to_tool_schema

EventIds == {"e1", "e2"}            \* keys of events_db
VenueIds == {"v1", "v2"}            \* keys of venues_db
AbsentId == "nx"                    \* an id that is in neither store
Students == {"s1", "s2", "s3"}
Dates == {"d1", "d2"}
TimeSlots == {"", "t1"}             \* time_slot is any str, the empty one included
Clubs == {"c1"}
\* expected_attendees is any int: from below zero to above every capacity
Attendees == (-1)..(MaxVenueCap + 1)

VARIABLES events_db, venues_db, notifications_log, now, result, threads, registry,
          conversion

vars == <<events_db, venues_db, notifications_log, now, result, threads, registry,
          conversion>>

(***************************************************************************)
(* Python list helpers                                                     *)
(***************************************************************************)
\* x in lst
Contains(lst, x) == \E i \in 1..Len(lst) : lst[i] = x

\* lst.index(x) for an x that is in lst: the first position holding x
IndexOf(lst, x) == CHOOSE i \in 1..Len(lst) :
                       lst[i] = x /\ \A j \in 1..(i - 1) : lst[j] # x

\* lst.pop() in place of lst.remove(x): drops the last element
Remove_last(lst, x) == SubSeq(lst, 1, Len(lst) - 1)

\* lst.remove(x) for an x that is in lst: drops the first occurrence
Remove(lst, x) ==
    LET k == IndexOf(lst, x)
    IN  SubSeq(lst, 1, k - 1) \o SubSeq(lst, k + 1, Len(lst))

(***************************************************************************)
(* Responses.  A route either returns a dict (HTTP 200, with its "success" *)
(* flag) or raises HTTPException (404, 400); an exception that is not an   *)
(* HTTPException (ValueError) is answered by the server with 500.          *)
(***************************************************************************)
NoData == <<>>

Response(code, success, message, data) ==
    [code |-> code, success |-> success, message |-> message, data |-> data]

HTTPException(status_code) == Response(status_code, FALSE, "rejected", NoData)

ServerError == Response(500, FALSE, "ValueError", NoData)

NoResponse == Response(0, FALSE, "none", NoData)

\* what a handler leaves behind: the three stores and its response
Outcome(events, venues, log, response) ==
    [events_db |-> events, venues_db |-> venues,
     notifications_log |-> log, response |-> response]

(***************************************************************************)
(* Seed data: events_db and venues_db are created once, with empty         *)
(* participants and bookings; notifications_log starts empty.  The seeded  *)
(* limits (500, 100, 50, 200 participants; 60..500 seats) are scaled down. *)
(***************************************************************************)
Event(max_participants, participants) ==
    [max_participants |-> max_participants, participants |-> participants]

Venue(capacity, bookings) == [capacity |-> capacity, bookings |-> bookings]

SeedEvents == [e \in EventIds |-> Event(IF e = "e1" THEN 1 ELSE MaxCap, <<>>)]

SeedVenues == [v \in VenueIds |-> Venue(IF v = "v1" THEN 1 ELSE MaxVenueCap, <<>>)]

(***************************************************************************)
(* Requests                                                                *)
(***************************************************************************)
RegistrationRequest == [student_id : Students]

BookingRequest ==
    [club_name : Clubs, date : Dates, time_slot : TimeSlots,
     purpose : {"p"}, expected_attendees : Attendees]

\* Optional[List[str]]: None, or a list
NoneIds == [is_none |-> TRUE, list |-> <<>>]
SomeIds(list) == [is_none |-> FALSE, list |-> list]
RecipientIds == {NoneIds, SomeIds(<<>>), SomeIds(<<"s2", "s2">>)}

RecipientTypes == {"all_participants", "specific_students", "all_students", "everyone"}

NotificationRequest ==
    [event_id : EventIds \cup {AbsentId}, message : {"m"},
     recipient_type : RecipientTypes, recipient_ids : RecipientIds]

(***************************************************************************)
(* Events endpoints                                                        *)
(***************************************************************************)
\* registration.student_id in event.participants
AlreadyRegistered(event, student_id) == Contains(event.participants, student_id)

\* a capacity check that admits one registration too many
EventFull_strict(event) == Len(event.participants) > event.max_participants

\* len(event.participants) >= event.max_participants
EventFull(event) == Len(event.participants) >= event.max_participants

\* an insert at the front instead of the append
AppendParticipant_front(events, event_id, student_id) ==
    [events EXCEPT ![event_id].participants = <<student_id>> \o @]

\* event.participants.append(registration.student_id)
AppendParticipant(events, event_id, student_id) ==
    [events EXCEPT ![event_id].participants = Append(@, student_id)]

\* a removal of the student from every event that holds it
RemoveParticipant_everywhere(events, event_id, student_id) ==
    [e \in DOMAIN events |->
        IF Contains(events[e].participants, student_id)
        THEN [events[e] EXCEPT !.participants = Remove(@, student_id)]
        ELSE events[e]]

\* event.participants.remove(student_id)
RemoveParticipant(events, event_id, student_id) ==
    [events EXCEPT ![event_id].participants = Remove(@, student_id)]

\* the capacity check placed before the duplicate check
register_for_event_capacity_first(events, venues, log, event_id, registration) ==
    IF event_id \notin DOMAIN events
    THEN Outcome(events, venues, log, HTTPException(404))
    ELSE LET event == events[event_id] IN
         IF EventFull(event)
         THEN Outcome(events, venues, log,
                      Response(200, FALSE, "event_full", NoData))
         ELSE IF AlreadyRegistered(event, registration.student_id)
         THEN Outcome(events, venues, log,
                      Response(200, FALSE, "already_registered", NoData))
         ELSE LET after == AppendParticipant(events, event_id, registration.student_id)
              IN  Outcome(after, venues, log,
                          Response(200, TRUE, "registered",
                                   [participants_count |->
                                        Len(after[event_id].participants)]))

register_for_event(events, venues, log, event_id, registration) ==
    IF event_id \notin DOMAIN events
    THEN Outcome(events, venues, log, HTTPException(404))
    ELSE LET event == events[event_id] IN
         IF AlreadyRegistered(event, registration.student_id)
         THEN Outcome(events, venues, log,
                      Response(200, FALSE, "already_registered", NoData))
         ELSE IF EventFull(event)
         THEN Outcome(events, venues, log,
                      Response(200, FALSE, "event_full", NoData))
         ELSE LET after == AppendParticipant(events, event_id, registration.student_id)
              IN  Outcome(after, venues, log,
                          Response(200, TRUE, "registered",
                                   [participants_count |->
                                        Len(after[event_id].participants)]))

unregister_from_event(events, venues, log, event_id, student_id) ==
    IF event_id \notin DOMAIN events
    THEN Outcome(events, venues, log, HTTPException(404))
    ELSE LET event == events[event_id] IN
         IF ~Contains(event.participants, student_id)
         THEN Outcome(events, venues, log,
                      Response(200, FALSE, "not_registered", NoData))
         ELSE Outcome(RemoveParticipant(events, event_id, student_id), venues, log,
                      Response(200, TRUE, "unregistered", NoData))

get_event_participants(events, event_id) ==
    IF event_id \notin DOMAIN events
    THEN HTTPException(404)
    ELSE Response(200, TRUE, "participants",
                  [participant_count |-> Len(events[event_id].participants),
                   participants |-> events[event_id].participants])

(***************************************************************************)
(* Venues endpoints                                                        *)
(***************************************************************************)
\* [b for b in venue.bookings if b["date"] == date]
BookingsOnDate(venue, date) ==
    LET OnDate(b) == b.date = date
    IN  SelectSeq(venue.bookings, OnDate)

\* a conflict scan that compares the time slot only
ConflictingBookings_any_date(venue, date, time_slot) ==
    LET Same(b) == b.time_slot = time_slot
    IN  SelectSeq(venue.bookings, Same)

\* [b for b in venue.bookings if b["date"] == date and b["time_slot"] == time_slot]
ConflictingBookings(venue, date, time_slot) ==
    LET Same(b) == b.date = date /\ b.time_slot = time_slot
    IN  SelectSeq(venue.bookings, Same)

\* booking.expected_attendees > venue.capacity
OverCapacity(venue, booking) == booking.expected_attendees > venue.capacity

\* the dict new_booking
NewBooking(booking, booked_at) ==
    [club_name |-> booking.club_name, date |-> booking.date,
     time_slot |-> booking.time_slot, purpose |-> booking.purpose,
     expected_attendees |-> booking.expected_attendees, booked_at |-> booked_at]

\* the new booking put at the head of the list
AppendBooking_front(venues, venue_id, new_booking) ==
    [venues EXCEPT ![venue_id].bookings = <<new_booking>> \o @]

\* venue.bookings.append(new_booking)
AppendBooking(venues, venue_id, new_booking) ==
    [venues EXCEPT ![venue_id].bookings = Append(@, new_booking)]

\* Optional[str] time_slot: None is modelled by NoSlot; `if time_slot:` is
\* false for None and for the empty string
NoSlot == "None"
Truthy(time_slot) == time_slot # NoSlot /\ time_slot # ""

AvailableSlots == 8

check_venue_availability(venues, venue_id, date, time_slot) ==
    IF venue_id \notin DOMAIN venues
    THEN HTTPException(404)
    ELSE LET venue == venues[venue_id]
             bookings_on_date == BookingsOnDate(venue, date)
         IN  IF Truthy(time_slot)
             THEN LET OnSlot(b) == b.time_slot = time_slot
                      conflicting_bookings == SelectSeq(bookings_on_date, OnSlot)
                  IN  Response(200, TRUE, "slot",
                               [available |-> Len(conflicting_bookings) = 0,
                                existing_bookings |-> conflicting_bookings])
             ELSE Response(200, TRUE, "date",
                           [available_slots |-> AvailableSlots,
                            booked_slots |-> Len(bookings_on_date),
                            bookings |-> bookings_on_date])

\* the conflict scan placed before the capacity check
book_venue_conflict_first(events, venues, log, venue_id, booking, booked_at) ==
    IF venue_id \notin DOMAIN venues
    THEN Outcome(events, venues, log, HTTPException(404))
    ELSE LET venue == venues[venue_id]
             conflicting_bookings ==
                 ConflictingBookings(venue, booking.date, booking.time_slot)
         IN  IF conflicting_bookings # <<>>
             THEN Outcome(events, venues, log,
                          Response(200, FALSE, "slot_booked",
                                   [existing_booking |-> conflicting_bookings[1]]))
             ELSE IF OverCapacity(venue, booking)
             THEN Outcome(events, venues, log,
                          Response(200, FALSE, "capacity_exceeded", NoData))
             ELSE Outcome(events,
                          AppendBooking(venues, venue_id, NewBooking(booking, booked_at)),
                          log,
                          Response(200, TRUE, "booked",
                                   [venue_id |-> venue_id, date |-> booking.date,
                                    time_slot |-> booking.time_slot,
                                    purpose |-> booking.purpose]))

book_venue(events, venues, log, venue_id, booking, booked_at) ==
    IF venue_id \notin DOMAIN venues
    THEN Outcome(events, venues, log, HTTPException(404))
    ELSE LET venue == venues[venue_id]
             conflicting_bookings ==
                 ConflictingBookings(venue, booking.date, booking.time_slot)
         IN  IF OverCapacity(venue, booking)
             THEN Outcome(events, venues, log,
                          Response(200, FALSE, "capacity_exceeded", NoData))
             ELSE IF conflicting_bookings # <<>>
             THEN Outcome(events, venues, log,
                          Response(200, FALSE, "slot_booked",
                                   [existing_booking |-> conflicting_bookings[1]]))
             ELSE Outcome(events,
                          AppendBooking(venues, venue_id, NewBooking(booking, booked_at)),
                          log,
                          Response(200, TRUE, "booked",
                                   [venue_id |-> venue_id, date |-> booking.date,
                                    time_slot |-> booking.time_slot,
                                    purpose |-> booking.purpose]))

(***************************************************************************)
(* Notifications endpoints.  `recipients` is a reference to a list object: *)
(* for all_participants it is the participants list of the event itself    *)
(* (recipients = event.participants copies nothing), otherwise a list that *)
(* only the request or the record holds.                                   *)
(***************************************************************************)
ParticipantsList(event_id) == [object |-> "participants", event_id |-> event_id, list |-> <<>>]

OwnList(list) == [object |-> "own", event_id |-> "", list |-> list]

\* the current content of a list object
Deref(events, ref) ==
    IF ref.object = "participants" THEN events[ref.event_id].participants
    ELSE ref.list

BroadcastSentinel == <<"all_students_broadcast">>

\* the dict notification_record
NotificationRecord(notification, timestamp, recipient_count, recipients) ==
    [timestamp |-> timestamp, event_id |-> notification.event_id,
     message |-> notification.message,
     recipient_type |-> notification.recipient_type,
     recipient_count |-> recipient_count, recipients |-> recipients]

\* an unknown event answered with the broadcast instead of the 404
ResolveRecipients_unknown_event(events, notification) ==
    IF notification.recipient_type = "all_participants"
    THEN IF notification.event_id \notin DOMAIN events
         THEN [raised |-> 0, recipients |-> OwnList(BroadcastSentinel)]
         ELSE [raised |-> 0, recipients |-> ParticipantsList(notification.event_id)]
    ELSE IF notification.recipient_type = "specific_students"
    THEN IF notification.recipient_ids.is_none \/ notification.recipient_ids.list = <<>>
         THEN [raised |-> 400, recipients |-> OwnList(<<>>)]
         ELSE [raised |-> 0, recipients |-> OwnList(notification.recipient_ids.list)]
    ELSE IF notification.recipient_type = "all_students"
    THEN [raised |-> 0, recipients |-> OwnList(BroadcastSentinel)]
    ELSE [raised |-> 400, recipients |-> OwnList(<<>>)]

\* recipient_ids compared with None only, an empty list let through
ResolveRecipients_none_only(events, notification) ==
    IF notification.recipient_type = "all_participants"
    THEN IF notification.event_id \notin DOMAIN events
         THEN [raised |-> 404, recipients |-> OwnList(<<>>)]
         ELSE [raised |-> 0, recipients |-> ParticipantsList(notification.event_id)]
    ELSE IF notification.recipient_type = "specific_students"
    THEN IF notification.recipient_ids.is_none
         THEN [raised |-> 400, recipients |-> OwnList(<<>>)]
         ELSE [raised |-> 0, recipients |-> OwnList(notification.recipient_ids.list)]
    ELSE IF notification.recipient_type = "all_students"
    THEN [raised |-> 0, recipients |-> OwnList(BroadcastSentinel)]
    ELSE [raised |-> 400, recipients |-> OwnList(<<>>)]

\* the first part of send_notification: the recipients, or the rejection
ResolveRecipients(events, notification) ==
    IF notification.recipient_type = "all_participants"
    THEN IF notification.event_id \notin DOMAIN events
         THEN [raised |-> 404, recipients |-> OwnList(<<>>)]
         ELSE [raised |-> 0, recipients |-> ParticipantsList(notification.event_id)]
    ELSE IF notification.recipient_type = "specific_students"
    THEN IF notification.recipient_ids.is_none \/ notification.recipient_ids.list = <<>>
         THEN [raised |-> 400, recipients |-> OwnList(<<>>)]
         ELSE [raised |-> 0, recipients |-> OwnList(notification.recipient_ids.list)]
    ELSE IF notification.recipient_type = "all_students"
    THEN [raised |-> 0, recipients |-> OwnList(BroadcastSentinel)]
    ELSE [raised |-> 400, recipients |-> OwnList(<<>>)]

\* the record appended before the check for an empty recipient list
send_notification_logging_first(events, venues, log, notification, timestamp) ==
    LET resolved == ResolveRecipients(events, notification)
        recipients == resolved.recipients
        notification_record ==
            NotificationRecord(notification, timestamp,
                               Len(Deref(events, recipients)), recipients)
    IN  IF resolved.raised # 0
        THEN Outcome(events, venues, log, HTTPException(resolved.raised))
        ELSE IF Deref(events, recipients) = <<>>
        THEN Outcome(events, venues, Append(log, notification_record),
                     Response(200, FALSE, "no_recipients", NoData))
        ELSE Outcome(events, venues, Append(log, notification_record),
                     Response(200, TRUE, "sent",
                              [event_id |-> notification.event_id,
                               recipient_count |-> Len(Deref(events, recipients)),
                               sent_at |-> notification_record.timestamp]))

send_notification(events, venues, log, notification, timestamp) ==
    LET resolved == ResolveRecipients(events, notification)
        recipients == resolved.recipients
    IN  IF resolved.raised # 0
        THEN Outcome(events, venues, log, HTTPException(resolved.raised))
        ELSE IF Deref(events, recipients) = <<>>
        THEN Outcome(events, venues, log,
                     Response(200, FALSE, "no_recipients", NoData))
        ELSE LET notification_record ==
                     NotificationRecord(notification, timestamp,
                                        Len(Deref(events, recipients)), recipients)
             IN  Outcome(events, venues, Append(log, notification_record),
                         Response(200, TRUE, "sent",
                                  [event_id |-> notification.event_id,
                                   recipient_count |-> Len(Deref(events, recipients)),
                                   sent_at |-> notification_record.timestamp]))

\* a record as the response serialises it: the list behind `recipients` as it is now
Serialized(events, record) ==
    [timestamp |-> record.timestamp, event_id |-> record.event_id,
     message |-> record.message, recipient_type |-> record.recipient_type,
     recipient_count |-> record.recipient_count,
     recipients |-> Deref(events, record.recipients)]

get_notifications_log(events, log) ==
    Response(200, TRUE, "log",
             [total_notifications |-> Len(log),
              notifications |-> [i \in 1..Len(log) |-> Serialized(events, log[i])]])

(***************************************************************************)
(* Catalog reads                                                           *)
(***************************************************************************)
list_events(events) == Response(200, TRUE, "events", events)

get_event(events, event_id) ==
    IF event_id \notin DOMAIN events THEN HTTPException(404)
    ELSE Response(200, TRUE, "event", events[event_id])

list_venues(venues) == Response(200, TRUE, "venues", venues)

get_venue(venues, venue_id) ==
    IF venue_id \notin DOMAIN venues THEN HTTPException(404)
    ELSE Response(200, TRUE, "venue", venues[venue_id])

(***************************************************************************)
(* Tool schemas (labs/utils.py).  A type hint is what typing's get_origin  *)
(* and get_args see of it: a plain class has no origin and no args,        *)
(* List[str] has origin list and args (str,), Annotated[T, m] (read with   *)
(* include_extras) has origin Annotated and args (T, m), Optional[T] has   *)
(* origin Union and args (T, NoneType).  A metadata object is a value with *)
(* or without a `description` attribute.                                   *)
(***************************************************************************)
NoOrigin == "None"

Hint(origin, name, args, description) ==
    [origin |-> origin, name |-> name, args |-> args, description |-> description]

\* a class used as a hint: str, int, list, ...; typing.Any stands for itself
\* and for a parameter without annotation (type_hints.get(param_name, Any))
Type(name) == Hint(NoOrigin, name, <<>>, "")

\* a subscripted generic; typing.List without subscript has no args
Generic(origin, args) == Hint(origin, "", args, "")

\* pydantic's Field(description=...), an object with a description
Field(description) == Hint(NoOrigin, "Field", <<>>, description)

\* a metadata object without a description attribute (a plain string)
Note == Hint(NoOrigin, "note", <<>>, "")

get_origin(hint) == hint.origin

get_args(hint) == hint.args

\* hasattr(metadata, 'description')
HasDescription(metadata) == metadata.name = "Field"

\* type_mapping
TypeMapping ==
    [str |-> "string", int |-> "integer", float |-> "number",
     bool |-> "boolean", list |-> "array", dict |-> "object"]

_python_type_to_json_type(python_type) ==
    IF get_origin(python_type) = NoOrigin /\ python_type.name \in DOMAIN TypeMapping
    THEN TypeMapping[python_type.name]
    ELSE IF get_origin(python_type) = "list" THEN "array"
    ELSE IF get_origin(python_type) = "dict" THEN "object"
    ELSE "string"

\* base_type: the first argument of any hint that has an origin and args
BaseType(param_type_hint) ==
    IF get_origin(param_type_hint) # NoOrigin /\ get_args(param_type_hint) # <<>>
    THEN get_args(param_type_hint)[1]
    ELSE param_type_hint

\* param_description: the description of the first of args[1:] that has one
ParamDescription(param_type_hint) ==
    LET args == get_args(param_type_hint)
        described == {i \in 2..Len(args) : HasDescription(args[i])}
    IN  IF get_origin(param_type_hint) = NoOrigin \/ described = {}
        THEN ""
        ELSE args[CHOOSE i \in described : \A j \in described : i <= j].description

\* param_schema; a description of "" is a schema without that key
ParamSchema(param_type_hint) ==
    [type |-> _python_type_to_json_type(BaseType(param_type_hint)),
     description |-> ParamDescription(param_type_hint)]

Parameter(name, annotation, has_default) ==
    [name |-> name, annotation |-> annotation, has_default |-> has_default]

Function(name, parameters) == [name |-> name, parameters |-> parameters]

\* the parameters the loop does not skip
Listed(func) ==
    LET NotSelf(param) == param.name # "self"
    IN  SelectSeq(func.parameters, NotSelf)

\* required: the listed parameters with param.default == Parameter.empty
Required(func) ==
    LET NoDefault(param) == ~param.has_default
        params == SelectSeq(Listed(func), NoDefault)
    IN  [i \in 1..Len(params) |-> params[i].name]

function_to_tool_schema(func) ==
    LET params == Listed(func)
        names == {params[i].name : i \in 1..Len(params)}
        properties ==
            [n \in names |->
                ParamSchema((CHOOSE p \in {params[i] : i \in 1..Len(params)} :
                                 p.name = n).annotation)]
    IN  [type |-> "function",
         function |->
             [name |-> func.name,
              parameters |-> [type |-> "object",
                              properties |-> properties,
                              required |-> Required(func)]]]

\* the hints of the functions converted
Annotations ==
    LET Str == Type("str")
        ListOfStr == Generic("list", <<Str>>)
        DictOfStrInt == Generic("dict", <<Str, Type("int")>>)
        Wrapped == {Str, Type("list"), Type("dict"), ListOfStr, DictOfStrInt}
    IN  {Type(n) : n \in {"str", "int", "float", "bool", "list", "dict", "Any"}}
        \cup {ListOfStr, DictOfStrInt, Generic("list", <<>>),
              Generic("Union", <<Type("int"), Type("NoneType")>>)}
        \cup {Generic("Annotated", <<t, m>>) : t \in Wrapped, m \in {Field("d"), Note}}

ParamNames == {"self", "x", "y"}

Parameters ==
    {Parameter(n, a, d) : n \in ParamNames, a \in Annotations, d \in BOOLEAN}

\* the signatures of n parameters, each name used once
Signatures(n) ==
    {s \in [1..n -> Parameters] : \A i, j \in 1..n : s[i].name = s[j].name => i = j}

\* the functions of up to n parameters
Functions(n) == {Function("f", sig) : sig \in UNION {Signatures(k) : k \in 0..n}}

NoFunction == Function("", <<>>)

\* no function handed over yet
NoConversion == [func |-> NoFunction, pc |-> "idle", tool_schema |-> NoData]

(***************************************************************************)
(* State                                                                   *)
(*   events_db, venues_db, notifications_log : the module-level stores     *)
(*   now     : the latest value datetime.now() has returned                *)
(*   result  : the request served last and its response, in Spec           *)
(*   threads : the requests in progress on the worker threads              *)
(*   registry: history of the requests served one at a time: per event the *)
(*             students whose latest register or unregister call was a     *)
(*             successful register, and which of them registered earlier   *)
(*   conversion: the function handed to function_to_tool_schema and the    *)
(*             schema it has returned                                      *)
(***************************************************************************)
Threads == 1..NumThreads

Call(op, id, req, response) == [op |-> op, id |-> id, req |-> req, response |-> response]

NoCall == Call("none", "", NoData, NoResponse)

Idle == [pc |-> "idle", op |-> "none", id |-> "", req |-> NoData,
         held |-> NoData, response |-> NoResponse]

NoRegistrations == [members |-> {}, earlier |-> {}]

\* a register call of student_id has returned success
Registered(registrations, student_id) ==
    [members |-> registrations.members \cup {student_id},
     earlier |-> {p \in registrations.earlier : p[1] # student_id /\ p[2] # student_id}
                 \cup {<<m, student_id>> : m \in registrations.members \ {student_id}}]

\* an unregister call of student_id has returned success
Unregistered(registrations, student_id) ==
    [members |-> registrations.members \ {student_id},
     earlier |-> {p \in registrations.earlier : p[1] # student_id /\ p[2] # student_id}]

\* the registry after a call and its response
Recorded(op, id, req, response) ==
    IF op = "register" /\ response.success
    THEN [registry EXCEPT ![id] = Registered(@, req.student_id)]
    ELSE IF op = "unregister" /\ response.success
    THEN [registry EXCEPT ![id] = Unregistered(@, req)]
    ELSE registry

Init ==
    /\ events_db = SeedEvents
    /\ venues_db = SeedVenues
    /\ notifications_log = <<>>
    /\ now = 0
    /\ result = NoCall
    /\ threads = [t \in Threads |-> Idle]
    /\ registry = [e \in EventIds |-> NoRegistrations]
    /\ conversion = NoConversion

\* datetime.now(): not before the value read last
ClockReadings == {ts \in now..(now + 1) : ts <= MaxClock}

\* a handler run from its first statement to its return, nothing in between
Serve(op, id, req, out) ==
    /\ events_db' = out.events_db
    /\ venues_db' = out.venues_db
    /\ notifications_log' = out.notifications_log
    /\ result' = Call(op, id, req, out.response)
    /\ registry' = Recorded(op, id, req, out.response)
    /\ UNCHANGED <<threads, conversion>>

\* a read that hands the ledger over and leaves it empty
Answer_draining(op, id, req, response) ==
    Serve(op, id, req, Outcome(events_db, venues_db, <<>>, response))

\* a handler that only reads
Answer(op, id, req, response) ==
    Serve(op, id, req, Outcome(events_db, venues_db, notifications_log, response))

Register(students) ==
    \E event_id \in EventIds \cup {AbsentId}, student_id \in students :
        /\ Serve("register", event_id, [student_id |-> student_id],
                 register_for_event(events_db, venues_db, notifications_log,
                                    event_id, [student_id |-> student_id]))
        /\ UNCHANGED now

Unregister(students) ==
    \E event_id \in EventIds \cup {AbsentId}, student_id \in students :
        /\ Serve("unregister", event_id, student_id,
                 unregister_from_event(events_db, venues_db, notifications_log,
                                       event_id, student_id))
        /\ UNCHANGED now

ListParticipants ==
    \E event_id \in EventIds \cup {AbsentId} :
        /\ Answer("participants", event_id, NoData,
                  get_event_participants(events_db, event_id))
        /\ UNCHANGED now

Book(venue_ids, requests) ==
    \E venue_id \in venue_ids, booking \in requests,
       booked_at \in ClockReadings :
        LET out == book_venue(events_db, venues_db, notifications_log,
                              venue_id, booking, booked_at)
        IN  /\ out.response.success => Len(venues_db[venue_id].bookings) < MaxBookings
            /\ Serve("book", venue_id, booking, out)
            /\ now' = IF out.response.success THEN booked_at ELSE now

CheckAvailability(venue_ids, dates, time_slots) ==
    \E venue_id \in venue_ids, date \in dates,
       time_slot \in time_slots \cup {NoSlot} :
        /\ Answer("availability", venue_id, [date |-> date, time_slot |-> time_slot],
                  check_venue_availability(venues_db, venue_id, date, time_slot))
        /\ UNCHANGED now

Send(requests) ==
    \E notification \in requests, timestamp \in ClockReadings :
        LET out == send_notification(events_db, venues_db, notifications_log,
                                     notification, timestamp)
        IN  /\ out.response.success => Len(notifications_log) < MaxLog
            /\ Serve("send", notification.event_id, notification, out)
            /\ now' = IF out.response.success THEN timestamp ELSE now

History ==
    /\ Answer("log", "", NoData, get_notifications_log(events_db, notifications_log))
    /\ UNCHANGED now

ListEvents ==
    /\ Answer("events", "", NoData, list_events(events_db))
    /\ UNCHANGED now

GetEvent ==
    \E event_id \in EventIds \cup {AbsentId} :
        /\ Answer("event", event_id, NoData, get_event(events_db, event_id))
        /\ UNCHANGED now

ListVenues ==
    /\ Answer("venues", "", NoData, list_venues(venues_db))
    /\ UNCHANGED now

GetVenue ==
    \E venue_id \in VenueIds \cup {AbsentId} :
        /\ Answer("venue", venue_id, NoData, get_venue(venues_db, venue_id))
        /\ UNCHANGED now

(***************************************************************************)
(* Specifications of requests served one at a time.                        *)
(*   SpecEvents : the Registration Engine, every student                   *)
(*   SpecVenues : the Booking Engine and the Availability Query            *)
(*   SpecLedger : the Notification Ledger over a changing catalog          *)
(*   Spec       : every endpoint, over requests that reach each outcome    *)
(*   SpecRecords: the writes to events and venues, every record written    *)
(***************************************************************************)
FewStudents == {"s1", "s2"}

NextEvents ==
    \/ Register(Students)
    \/ Unregister(Students)
    \/ ListParticipants
    \/ GetEvent
    \/ ListEvents

SpecEvents == Init /\ [][NextEvents]_vars

\* the attendee counts at the edges of the larger venue's capacity check:
\* zero, its capacity, one above its capacity
VenueBookings ==
    {b \in BookingRequest :
        b.expected_attendees \in {0, MaxVenueCap, MaxVenueCap + 1}}

NextVenues ==
    \/ Book({"v2", AbsentId}, VenueBookings)
    \/ CheckAvailability({"v2", AbsentId}, Dates, TimeSlots)
    \/ GetVenue
    \/ ListVenues

SpecVenues == Init /\ [][NextVenues]_vars

\* notifications about one event and about an unknown one; recipient_ids
\* is read for specific_students only
LedgerNotifications ==
    {n \in NotificationRequest :
        /\ n.event_id \in {"e1", AbsentId}
        /\ n.recipient_type # "specific_students" => n.recipient_ids = NoneIds}

NextLedger ==
    \/ Register({"s1"})
    \/ Unregister({"s1"})
    \/ Send(LedgerNotifications)
    \/ History

SpecLedger == Init /\ [][NextLedger]_vars

FewBookings ==
    {b \in BookingRequest :
        b.date = "d1" /\ b.time_slot = "t1" /\ b.expected_attendees \in {1, 3}}

FewNotifications ==
    {n \in NotificationRequest :
        /\ n.event_id \in {"e1", AbsentId}
        /\ n.recipient_type = "all_participants"
        /\ n.recipient_ids = NoneIds}

Next ==
    \/ Register(FewStudents)
    \/ Unregister(FewStudents)
    \/ ListParticipants
    \/ Book({"v1", AbsentId}, FewBookings)
    \/ CheckAvailability({"v1", AbsentId}, {"d1"}, {"t1"})
    \/ Send(FewNotifications)
    \/ History
    \/ ListEvents
    \/ GetEvent
    \/ ListVenues
    \/ GetVenue

Spec == Init /\ [][Next]_vars

NextRecords ==
    \/ Register(FewStudents)
    \/ Unregister(FewStudents)
    \/ Book(VenueIds \cup {AbsentId}, FewBookings)

SpecRecords == Init /\ [][NextRecords]_vars

(***************************************************************************)
(* function_to_tool_schema applied to each function of Functions           *)
(***************************************************************************)
InitSchema ==
    /\ events_db = SeedEvents
    /\ venues_db = SeedVenues
    /\ notifications_log = <<>>
    /\ now = 0
    /\ result = NoCall
    /\ threads = [t \in Threads |-> Idle]
    /\ registry = [e \in EventIds |-> NoRegistrations]
    /\ conversion \in {[func |-> f, pc |-> "idle", tool_schema |-> NoData] :
                          f \in Functions(MaxParams)}

Convert ==
    /\ conversion.pc = "idle"
    /\ conversion' = [conversion EXCEPT
                          !.pc = "done",
                          !.tool_schema = function_to_tool_schema(conversion.func)]
    /\ UNCHANGED <<events_db, venues_db, notifications_log, now, result, threads,
                   registry>>

NextSchema == Convert

SpecSchema == InitSchema /\ [][NextSchema]_vars

(***************************************************************************)
(* Requests served at the same time.  A thread runs one handler; a step is *)
(* a stretch of the handler that reads or writes a shared list once (a     *)
(* list's `in`, len, append and remove are each atomic under the           *)
(* interpreter lock); the next statement may run after other threads'      *)
(* steps.  The keys of events_db and venues_db never change, so the lookup *)
(* of the record is part of the first step.                                *)
(***************************************************************************)
Free(t) == threads[t].pc \in {"idle", "done"}

At(t, pc) == threads[t].pc = pc

Running(op, id, req, pc, held) ==
    [pc |-> pc, op |-> op, id |-> id, req |-> req, held |-> held,
     response |-> NoResponse]

Goto(t, pc) == threads' = [threads EXCEPT ![t].pc = pc]

Return(t, response) ==
    threads' = [threads EXCEPT ![t].pc = "done", ![t].response = response]

\* lines 192-202: the lookup and the duplicate check
RegisterBegin(t) ==
    \E event_id \in EventIds \cup {AbsentId}, student_id \in FewStudents :
        /\ Free(t)
        /\ threads' = [threads EXCEPT ![t] =
              IF event_id \notin DOMAIN events_db
              THEN [Running("register", event_id, student_id, "done", NoData)
                        EXCEPT !.response = HTTPException(404)]
              ELSE IF AlreadyRegistered(events_db[event_id], student_id)
              THEN [Running("register", event_id, student_id, "done", NoData)
                        EXCEPT !.response =
                            Response(200, FALSE, "already_registered", NoData)]
              ELSE Running("register", event_id, student_id, "reg_capacity", NoData)]
        /\ UNCHANGED <<events_db, venues_db, notifications_log, now, result, registry, conversion>>

\* lines 205-209: the capacity check
RegisterCapacity(t) ==
    /\ At(t, "reg_capacity")
    /\ IF EventFull(events_db[threads[t].id])
       THEN Return(t, Response(200, FALSE, "event_full", NoData))
       ELSE Goto(t, "reg_append")
    /\ UNCHANGED <<events_db, venues_db, notifications_log, now, result, registry, conversion>>

\* line 212: the append
RegisterAppend(t) ==
    /\ At(t, "reg_append")
    /\ events_db' = AppendParticipant(events_db, threads[t].id, threads[t].req)
    /\ Goto(t, "reg_return")
    /\ UNCHANGED <<venues_db, notifications_log, now, result, registry, conversion>>

\* lines 215-225: the response, with len(event.participants) as it is now
RegisterReturn(t) ==
    /\ At(t, "reg_return")
    /\ Return(t, Response(200, TRUE, "registered",
                          [participants_count |->
                               Len(events_db[threads[t].id].participants)]))
    /\ UNCHANGED <<events_db, venues_db, notifications_log, now, result, registry, conversion>>

\* lines 230-239: the lookup and the containment check
UnregisterBegin(t) ==
    \E event_id \in EventIds \cup {AbsentId}, student_id \in FewStudents :
        /\ Free(t)
        /\ threads' = [threads EXCEPT ![t] =
              IF event_id \notin DOMAIN events_db
              THEN [Running("unregister", event_id, student_id, "done", NoData)
                        EXCEPT !.response = HTTPException(404)]
              ELSE IF ~Contains(events_db[event_id].participants, student_id)
              THEN [Running("unregister", event_id, student_id, "done", NoData)
                        EXCEPT !.response =
                            Response(200, FALSE, "not_registered", NoData)]
              ELSE Running("unregister", event_id, student_id, "unreg_remove", NoData)]
        /\ UNCHANGED <<events_db, venues_db, notifications_log, now, result, registry, conversion>>

\* lines 241-247: list.remove raises ValueError when the value is not in the list
UnregisterRemove(t) ==
    /\ At(t, "unreg_remove")
    /\ IF Contains(events_db[threads[t].id].participants, threads[t].req)
       THEN /\ events_db' = RemoveParticipant(events_db, threads[t].id, threads[t].req)
            /\ Return(t, Response(200, TRUE, "unregistered", NoData))
       ELSE /\ UNCHANGED events_db
            /\ Return(t, ServerError)
    /\ UNCHANGED <<venues_db, notifications_log, now, result, registry, conversion>>

NextConcEvents ==
    \E t \in Threads :
        \/ RegisterBegin(t)
        \/ RegisterCapacity(t)
        \/ RegisterAppend(t)
        \/ RegisterReturn(t)
        \/ UnregisterBegin(t)
        \/ UnregisterRemove(t)

SpecConcEvents == Init /\ [][NextConcEvents]_vars

RacingBookings ==
    {b \in BookingRequest : b.time_slot = "t1" /\ b.expected_attendees \in {1, 2, 3}}

\* lines 321-344: the lookup, the capacity check and the conflict scan
BookBegin(t) ==
    \E venue_id \in {"v2", AbsentId}, booking \in RacingBookings :
        /\ Free(t)
        /\ venue_id \in VenueIds => Len(venues_db[venue_id].bookings) < MaxBookings
        /\ threads' = [threads EXCEPT ![t] =
              IF venue_id \notin DOMAIN venues_db
              THEN [Running("book", venue_id, booking, "done", NoData)
                        EXCEPT !.response = HTTPException(404)]
              ELSE IF OverCapacity(venues_db[venue_id], booking)
              THEN [Running("book", venue_id, booking, "done", NoData)
                        EXCEPT !.response =
                            Response(200, FALSE, "capacity_exceeded", NoData)]
              ELSE LET conflicting_bookings ==
                           ConflictingBookings(venues_db[venue_id],
                                               booking.date, booking.time_slot)
                   IN  IF conflicting_bookings # <<>>
                       THEN [Running("book", venue_id, booking, "done", NoData)
                                 EXCEPT !.response =
                                     Response(200, FALSE, "slot_booked",
                                              [existing_booking |->
                                                   conflicting_bookings[1]])]
                       ELSE Running("book", venue_id, booking, "book_create", NoData)]
        /\ UNCHANGED <<events_db, venues_db, notifications_log, now, result, registry, conversion>>

\* lines 347-354: new_booking, with the time read now
BookCreate(t) ==
    \E booked_at \in ClockReadings :
        /\ At(t, "book_create")
        /\ threads' = [threads EXCEPT ![t].pc = "book_append",
                                      ![t].held = NewBooking(threads[t].req, booked_at)]
        /\ now' = booked_at
        /\ UNCHANGED <<events_db, venues_db, notifications_log, result, registry, conversion>>

\* lines 356-370: the append and the response
BookAppend(t) ==
    /\ At(t, "book_append")
    /\ venues_db' = AppendBooking(venues_db, threads[t].id, threads[t].held)
    /\ Return(t, Response(200, TRUE, "booked",
                          [venue_id |-> threads[t].id, date |-> threads[t].req.date,
                           time_slot |-> threads[t].req.time_slot,
                           purpose |-> threads[t].req.purpose]))
    /\ UNCHANGED <<events_db, notifications_log, now, result, registry, conversion>>

NextConcVenues ==
    \E t \in Threads :
        \/ BookBegin(t)
        \/ BookCreate(t)
        \/ BookAppend(t)

SpecConcVenues == Init /\ [][NextConcVenues]_vars

\* lines 381-396: the recipients, a reference to a list, or the rejection
SendBegin(t) ==
    \E notification \in NotificationRequest :
        LET resolved == ResolveRecipients(events_db, notification)
        IN  /\ Free(t)
            /\ Len(notifications_log) < MaxLog
            /\ threads' = [threads EXCEPT ![t] =
                  IF resolved.raised # 0
                  THEN [Running("send", notification.event_id, notification,
                                "done", NoData)
                            EXCEPT !.response = HTTPException(resolved.raised)]
                  ELSE Running("send", notification.event_id, notification,
                               "send_check", [recipients |-> resolved.recipients])]
            /\ UNCHANGED <<events_db, venues_db, notifications_log, now, result, registry, conversion>>

\* lines 398-402: the check for an empty list
SendCheck(t) ==
    /\ At(t, "send_check")
    /\ IF Deref(events_db, threads[t].held.recipients) = <<>>
       THEN Return(t, Response(200, FALSE, "no_recipients", NoData))
       ELSE Goto(t, "send_create")
    /\ UNCHANGED <<events_db, venues_db, notifications_log, now, result, registry, conversion>>

\* lines 405-412: notification_record, with the time and the length read now
SendCreate(t) ==
    \E timestamp \in ClockReadings :
        /\ At(t, "send_create")
        /\ threads' = [threads EXCEPT
              ![t].pc = "send_append",
              ![t].held = NotificationRecord(
                              threads[t].req, timestamp,
                              Len(Deref(events_db, threads[t].held.recipients)),
                              threads[t].held.recipients)]
        /\ now' = timestamp
        /\ UNCHANGED <<events_db, venues_db, notifications_log, result, registry, conversion>>

\* lines 414-425: the append and the response
SendAppend(t) ==
    /\ At(t, "send_append")
    /\ notifications_log' = Append(notifications_log, threads[t].held)
    /\ Return(t, Response(200, TRUE, "sent",
                          [event_id |-> threads[t].req.event_id,
                           recipient_count |->
                               Len(Deref(events_db, threads[t].held.recipients)),
                           sent_at |-> threads[t].held.timestamp]))
    /\ UNCHANGED <<events_db, venues_db, now, result, registry, conversion>>

NextConcLedger ==
    \E t \in Threads :
        \/ SendBegin(t)
        \/ SendCheck(t)
        \/ SendCreate(t)
        \/ SendAppend(t)

SpecConcLedger == Init /\ [][NextConcLedger]_vars

(***************************************************************************)
(* Properties                                                              *)
(***************************************************************************)
Participants(e) == events_db[e].participants

Bookings(v) == venues_db[v].bookings

NoDuplicates(lst) == \A i, j \in 1..Len(lst) : lst[i] = lst[j] => i = j

\* the request served by a step of Spec is the one `result` names after it
Served(call, op, id) == call.op = op /\ call.id = id

Failed(call, message) ==
    /\ call.response.code = 200
    /\ ~call.response.success
    /\ call.response.message = message

DomainFailures ==
    {"already_registered", "event_full", "not_registered",
     "capacity_exceeded", "slot_booked", "no_recipients"}

\* C1 (SpecEvents): after any sequence of register and unregister calls no
\* event has more participants than its max_participants.
C1_CapacityInvariant ==
    \A e \in EventIds : Len(Participants(e)) <= events_db[e].max_participants

\* a registration has just been turned away from an event that is full
C1_Witness ==
    \E e \in EventIds :
        /\ Served(result, "register", e)
        /\ Failed(result, "event_full")
        /\ Len(Participants(e)) = events_db[e].max_participants

\* C2 (SpecConcEvents): participants never holds the same student id twice,
\* whatever the interleaving of concurrent register and unregister calls.
C2_NoDuplicateRegistration == \A e \in EventIds : NoDuplicates(Participants(e))

\* C3 (SpecConcVenues): no two bookings of a venue share (date, time_slot),
\* whatever the interleaving of concurrent book calls.
C3_NoDoubleBooking ==
    \A v \in VenueIds : \A i, j \in 1..Len(Bookings(v)) :
        (Bookings(v)[i].date = Bookings(v)[j].date
         /\ Bookings(v)[i].time_slot = Bookings(v)[j].time_slot) => i = j

\* C4 (SpecConcEvents): two concurrent register calls for different
\* students on one event never both get past the capacity check and leave
\* the event with more participants than max_participants.
C4_SerializedCapacityCheck ==
    \A t, u \in Threads :
        (/\ t # u
         /\ threads[t].op = "register" /\ threads[u].op = "register"
         /\ threads[t].id = threads[u].id
         /\ threads[t].id \in EventIds
         /\ threads[t].req # threads[u].req
         /\ threads[t].pc \in {"reg_return", "done"}
         /\ threads[u].pc \in {"reg_return", "done"}
         /\ threads[t].pc = "done" => threads[t].response.success
         /\ threads[u].pc = "done" => threads[u].response.success)
        => Len(Participants(threads[t].id)) <= events_db[threads[t].id].max_participants

\* C5 (SpecConcEvents): an unregister call on an existing event ends in
\* success or in the "not registered" failure, never in a fault.
C5_UnregisterNeverFaults ==
    \A t \in Threads :
        (threads[t].op = "unregister" /\ threads[t].pc = "done"
         /\ threads[t].id \in EventIds)
        => \/ threads[t].response.success
           \/ Failed(threads[t], "not_registered")

\* C6 (Spec): a call that returns a domain failure leaves every event's
\* participants, every venue's bookings and the ledger as they were.
C6_DomainFailureLeavesStore ==
    [][(/\ result'.response.code = 200
        /\ ~result'.response.success
        /\ result'.response.message \in DomainFailures)
       => (/\ events_db' = events_db
           /\ venues_db' = venues_db
           /\ notifications_log' = notifications_log)]_vars

\* a send has just failed for want of recipients, over stores that hold a
\* booking and a record
C6_Witness ==
    /\ result.op = "send"
    /\ Failed(result, "no_recipients")
    /\ notifications_log # <<>>
    /\ \E v \in VenueIds : Bookings(v) # <<>>

\* C7 (SpecEvents): register on an existing event succeeds exactly when the
\* student is not in participants and the event is not full; then the
\* student is appended at the end and the returned count is the new length.
C7_RegisterOutcome ==
    [][\A e \in EventIds :
          Served(result', "register", e) =>
              LET before == Participants(e)
                  student_id == result'.req.student_id
              IN  /\ result'.response.success <=>
                         (/\ ~Contains(before, student_id)
                          /\ Len(before) < events_db[e].max_participants)
                  /\ result'.response.success =>
                         /\ events_db'[e].participants = Append(before, student_id)
                         /\ result'.response.data.participants_count = Len(before) + 1]_vars

\* a second student has just been registered behind the first
C7_Witness ==
    \E e \in EventIds :
        /\ Served(result, "register", e)
        /\ result.response.success
        /\ result.response.data.participants_count = 2
        /\ Participants(e)[2] = result.req.student_id

\* the first booking of a venue on (date, time_slot)
FirstConflict(v, date, time_slot) ==
    LET k == CHOOSE i \in 1..Len(Bookings(v)) :
                 /\ Bookings(v)[i].date = date
                 /\ Bookings(v)[i].time_slot = time_slot
                 /\ \A j \in 1..(i - 1) :
                        ~(Bookings(v)[j].date = date
                          /\ Bookings(v)[j].time_slot = time_slot)
    IN  Bookings(v)[k]

SlotTaken(v, date, time_slot) ==
    \E i \in 1..Len(Bookings(v)) :
        Bookings(v)[i].date = date /\ Bookings(v)[i].time_slot = time_slot

\* C8 (SpecVenues): book on an existing venue succeeds exactly when the
\* attendees fit the capacity and the (date, time_slot) is free; then one
\* booking is appended at the end; a slot conflict returns the first
\* conflicting booking.
C8_BookOutcome ==
    [][\A v \in VenueIds :
          Served(result', "book", v) =>
              LET booking == result'.req
                  taken == SlotTaken(v, booking.date, booking.time_slot)
              IN  /\ result'.response.success <=>
                         (/\ booking.expected_attendees <= venues_db[v].capacity
                          /\ ~taken)
                  /\ result'.response.success =>
                         /\ Len(venues_db'[v].bookings) = Len(Bookings(v)) + 1
                         /\ SubSeq(venues_db'[v].bookings, 1, Len(Bookings(v))) = Bookings(v)
                         /\ LET new == venues_db'[v].bookings[Len(Bookings(v)) + 1]
                            IN  /\ new.date = booking.date
                                /\ new.time_slot = booking.time_slot
                                /\ new.club_name = booking.club_name
                                /\ new.purpose = booking.purpose
                                /\ new.expected_attendees = booking.expected_attendees
                  /\ Failed(result', "slot_booked") =>
                         result'.response.data.existing_booking =
                             FirstConflict(v, booking.date, booking.time_slot)]_vars

\* a book call has just been refused over a slot that the venue's only
\* booking on that date holds, the venue having a booking on the other date
\* as well
C8_Witness ==
    \E v \in VenueIds :
        /\ Served(result, "book", v)
        /\ Failed(result, "slot_booked")
        /\ result.response.data.existing_booking \in
               {Bookings(v)[i] : i \in 1..Len(Bookings(v))}
        /\ \E i \in 1..Len(Bookings(v)) : Bookings(v)[i].date # result.req.date

\* the recipients of the i-th record of the ledger
Recipients(i) == Deref(events_db, notifications_log[i].recipients)

\* C9 (SpecLedger): a record made for all_participants holds the event's
\* participants as they were at the send call, and nothing changes the
\* recipients of a record that is in the ledger.
C9_RecordIsSnapshot ==
    [][/\ \A i \in 1..Len(notifications_log) :
              /\ Len(notifications_log') >= i
              /\ Recipients(i)' = Recipients(i)
       /\ (Len(notifications_log') > Len(notifications_log)
           /\ result'.req.recipient_type = "all_participants")
          => Deref(events_db', notifications_log'[Len(notifications_log')].recipients)
                 = Participants(result'.req.event_id)]_vars

\* C10 (SpecEvents): register of a student who is in the participants of a
\* full event returns "already registered", never "event full".
C10_DuplicateBeforeCapacity ==
    [][\A e \in EventIds :
          (/\ Served(result', "register", e)
           /\ Len(Participants(e)) = events_db[e].max_participants
           /\ Contains(Participants(e), result'.req.student_id))
          => Failed(result', "already_registered")]_vars

\* a participant of a full event has just been told so
C10_Witness ==
    \E e \in EventIds :
        /\ Served(result, "register", e)
        /\ Failed(result, "already_registered")
        /\ Len(Participants(e)) = events_db[e].max_participants
        /\ Len(Participants(e)) > 1

\* C11 (SpecVenues): a book call with more attendees than the venue holds,
\* for a (date, time_slot) that is already booked, returns "capacity
\* exceeded" and carries no conflicting booking.
C11_CapacityBeforeConflict ==
    [][\A v \in VenueIds :
          (/\ Served(result', "book", v)
           /\ result'.req.expected_attendees > venues_db[v].capacity
           /\ SlotTaken(v, result'.req.date, result'.req.time_slot))
          => /\ Failed(result', "capacity_exceeded")
             /\ result'.response.data = NoData]_vars

\* an oversized booking has just been refused for a slot that is taken
C11_Witness ==
    \E v \in VenueIds :
        /\ Served(result, "book", v)
        /\ Failed(result, "capacity_exceeded")
        /\ SlotTaken(v, result.req.date, result.req.time_slot)

\* C12 (SpecLedger): send for specific_students with recipient_ids empty or
\* absent is rejected as an invalid argument (400), neither the "no
\* recipients" failure nor a success, and the ledger is unchanged.
C12_EmptyRecipientIdsRejected ==
    [][(/\ result'.op = "send"
        /\ result'.req.recipient_type = "specific_students"
        /\ (result'.req.recipient_ids.is_none \/ result'.req.recipient_ids.list = <<>>))
       => /\ result'.response.code = 400
          /\ ~result'.response.success
          /\ notifications_log' = notifications_log]_vars

\* a send with an empty recipient_ids list has just been rejected, the
\* ledger holding a record
C12_Witness ==
    /\ result.op = "send"
    /\ result.req.recipient_type = "specific_students"
    /\ result.req.recipient_ids = SomeIds(<<>>)
    /\ result.response.code = 400
    /\ notifications_log # <<>>

\* the availability response says the slot is free
ReportsAvailable(response) ==
    response.code = 200 /\ response.message = "slot" /\ response.data.available

\* C13 (SpecVenues): with a time_slot given, for every time_slot value book
\* accepts, check_venue_availability reports available exactly when the
\* venue has no booking on that (date, time_slot); so a book call within
\* capacity succeeds exactly when the availability check just before it
\* reports available.
C13_AvailabilityMatchesBooking ==
    [][\A v \in VenueIds :
          /\ (Served(result', "availability", v) /\ result'.req.time_slot # NoSlot)
             => /\ result'.response.message = "slot"
                /\ ReportsAvailable(result'.response) <=>
                       ~SlotTaken(v, result'.req.date, result'.req.time_slot)
          /\ (Served(result', "book", v)
              /\ result'.req.expected_attendees <= venues_db[v].capacity)
             => (result'.response.success <=>
                     ReportsAvailable(check_venue_availability(
                         venues_db, v, result'.req.date, result'.req.time_slot)))]_vars

\* C14 (SpecEvents): after any sequence of register and unregister calls,
\* get_event_participants returns exactly the students now registered, in the
\* order of their latest successful registrations, and its count is the
\* length of that list.
C14_OrderPreserved ==
    \A e \in EventIds :
        LET response == get_event_participants(events_db, e)
            participants == response.data.participants
        IN  /\ response.code = 200
            /\ {participants[i] : i \in 1..Len(participants)} = registry[e].members
            /\ \A i, j \in 1..Len(participants) :
                   i < j => <<participants[i], participants[j]>> \in registry[e].earlier
            /\ response.data.participant_count = Len(participants)

\* the list has just been returned with s2, registered first, ahead of s1
C14_Witness ==
    \E e \in EventIds :
        /\ Served(result, "participants", e)
        /\ result.response.data.participants = <<"s2", "s1">>
        /\ result.response.data.participant_count = 2
        /\ registry[e].earlier = {<<"s2", "s1">>}

\* C15 (SpecConcLedger): whatever the interleaving of concurrent send calls,
\* the ledger is ordered by creation time: the timestamps of the records
\* returned by get_notifications_log never decrease along the list, and
\* total_notifications is the number of records.
C15_LedgerOrderedByTime ==
    LET response == get_notifications_log(events_db, notifications_log)
        notifications == response.data.notifications
    IN  /\ response.data.total_notifications = Len(notifications_log)
        /\ Len(notifications) = Len(notifications_log)
        /\ \A i, j \in 1..Len(notifications) :
               i < j => notifications[i].timestamp <= notifications[j].timestamp

\* C16 (SpecLedger): after any sequence of send, register and unregister
\* calls, recipient_count of every record in the ledger is the length of
\* the record's recipients.
C16_CountIsLength ==
    \A i \in 1..Len(notifications_log) :
        notifications_log[i].recipient_count = Len(Recipients(i))

\* C17 as stated (SpecLedger): every record in the ledger, whatever its
\* recipient_type, has an event_id that is a key of events_db.
C17_RecordsReferenceEvents ==
    \A i \in 1..Len(notifications_log) :
        notifications_log[i].event_id \in DOMAIN events_db

\* C17 as amended (SpecLedger): every record made for all_participants has
\* an event_id that is a key of events_db; the event_id of a record for
\* specific_students or all_students is whatever the request carried.
C17_ParticipantRecordsReferenceEvents ==
    /\ \A i \in 1..Len(notifications_log) :
           notifications_log[i].recipient_type = "all_participants"
               => notifications_log[i].event_id \in DOMAIN events_db
    /\ (result.op = "send" /\ result.response.success)
           => notifications_log[Len(notifications_log)].event_id = result.req.event_id

\* the ledger holds a record for the participants of an event and, behind
\* it, a broadcast record naming an event that does not exist
C17_Witness ==
    /\ Len(notifications_log) = 2
    /\ notifications_log[1].recipient_type = "all_participants"
    /\ notifications_log[1].event_id \in DOMAIN events_db
    /\ notifications_log[2].recipient_type = "all_students"
    /\ notifications_log[2].event_id = AbsentId
    /\ result.op = "send"

\* C18 (SpecVenues): every booking stored in a venue has expected_attendees
\* that is positive and at most the venue's capacity, whatever integer the
\* book call carried.
C18_AttendeesPositiveWithinCapacity ==
    \A v \in VenueIds : \A i \in 1..Len(Bookings(v)) :
        /\ Bookings(v)[i].expected_attendees > 0
        /\ Bookings(v)[i].expected_attendees <= venues_db[v].capacity

\* C19 (SpecVenues): in every step the bookings of each venue before the
\* step are a prefix of its bookings after it: no booking is removed,
\* reordered or changed, booked_at included.
C19_BookingsAppendOnly ==
    [][\A v \in VenueIds :
          /\ Len(venues_db'[v].bookings) >= Len(Bookings(v))
          /\ SubSeq(venues_db'[v].bookings, 1, Len(Bookings(v))) = Bookings(v)]_vars

\* a second booking has just been appended behind an earlier one
C19_Witness ==
    \E v \in VenueIds :
        /\ Served(result, "book", v)
        /\ result.response.success
        /\ Len(Bookings(v)) = 2
        /\ Bookings(v)[2].date = result.req.date
        /\ Bookings(v)[2].time_slot = result.req.time_slot
        /\ Bookings(v)[1].booked_at < Bookings(v)[2].booked_at

QueryOps == {"availability", "participants", "log", "event", "venue", "events", "venues"}

\* C20 (Spec): check_venue_availability, get_event_participants,
\* get_notifications_log, get_event, get_venue, list_events and list_venues
\* change no event's participants, no venue's bookings and not the ledger,
\* whether they succeed or are rejected with 404.
C20_QueriesDoNotMutate ==
    [][result'.op \in QueryOps
       => /\ events_db' = events_db
          /\ venues_db' = venues_db
          /\ notifications_log' = notifications_log
          /\ \A i \in 1..Len(notifications_log) : Recipients(i)' = Recipients(i)]_vars

\* a lookup of an unknown venue has just been rejected, over stores that
\* hold a participant, a booking and a record
C20_Witness ==
    /\ result.op = "availability"
    /\ result.response.code = 404
    /\ \E e \in EventIds : Participants(e) # <<>>
    /\ \E v \in VenueIds : Bookings(v) # <<>>
    /\ notifications_log # <<>>

\* C21 (SpecRecords): register and unregister on one event change that
\* event's participants only: every other event and every venue stay as they
\* were; book on one venue changes that venue's bookings only: every other
\* venue and every event stay as they were.
C21_WritesStayInRecord ==
    [][/\ result'.op \in {"register", "unregister"}
          => /\ \A e \in EventIds \ {result'.id} : events_db'[e] = events_db[e]
             /\ \A e \in EventIds :
                    events_db'[e].max_participants = events_db[e].max_participants
             /\ venues_db' = venues_db
       /\ result'.op = "book"
          => /\ \A v \in VenueIds \ {result'.id} : venues_db'[v] = venues_db[v]
             /\ \A v \in VenueIds : venues_db'[v].capacity = venues_db[v].capacity
             /\ events_db' = events_db]_vars

\* a student has just left one event while registered for the other as
\* well, both venues holding a booking
C21_Witness ==
    /\ result.op = "unregister"
    /\ result.response.success
    /\ \E e \in EventIds \ {result.id} : Contains(Participants(e), result.req)
    /\ \A v \in VenueIds : Bookings(v) # <<>>

\* the type a hint stands for once an Annotated wrapper is taken off
Unwrapped(hint) ==
    IF get_origin(hint) = "Annotated" THEN get_args(hint)[1] ELSE hint

IsListHint(hint) == hint = Type("list") \/ get_origin(hint) = "list"

IsDictHint(hint) == hint = Type("dict") \/ get_origin(hint) = "dict"

\* C22 (SpecSchema): in the schema function_to_tool_schema returns, a
\* parameter hinted as a list, bare, generic (List[str]) or inside Annotated,
\* has type "array", one hinted as a dict, bare, generic or inside Annotated,
\* has type "object", one hinted as str, int, float or bool has the type
\* type_mapping gives; and a parameter is in "required" exactly when it has
\* no default value.
C22_SchemaTypesAndRequired ==
    conversion.pc = "done" =>
        LET params == Listed(conversion.func)
            parameters == conversion.tool_schema.function.parameters
        IN  \A i \in 1..Len(params) :
                LET hint == Unwrapped(params[i].annotation)
                    type == parameters.properties[params[i].name].type
                IN  /\ IsListHint(hint) => type = "array"
                    /\ IsDictHint(hint) => type = "object"
                    /\ (get_origin(hint) = NoOrigin /\ hint.name \in DOMAIN TypeMapping)
                           => type = TypeMapping[hint.name]
                    /\ Contains(parameters.required, params[i].name)
                           <=> ~params[i].has_default

====
